---- MODULE Spec2Model ----
(***************************************************************************)
(* FireSQL, src/select/where.ts: the translation of a parsed WHERE         *)
(* expression into a list of Firestore queries.  applyWhere is a pure,     *)
(* recursive function; every operator below computes what the TypeScript   *)
(* computes, on the same AST shapes.  A thrown Error is a result whose     *)
(* err field holds the message.  Every result also carries arg, the        *)
(* contents of the array object that was passed as `queries` once the call *)
(* is over, so that mutation of the caller's array is observable.          *)
(***************************************************************************)
EXTENDS Integers, Sequences, FiniteSets, TLC

VARIABLES astWhere, queries, result, pc

vars == <<astWhere, queries, result, pc>>

RECURSIVE applyWhere(_, _)
RECURSIVE applyCondition(_, _, _, _)
RECURSIVE forEachValue(_, _, _, _)
RECURSIVE prefixSuccessor(_)

(* ------------------------------ bounds --------------------------------- *)

\* Characters are the code units 0..MaxChar; MaxChar is the largest one.
MaxChar == 2
\* Longest string literal, LIKE pattern and document string.
MaxStrLen == 2
\* Number literals are 0..MaxNum.
MaxNum == 1
\* Longest value list of an expr_list node.
MaxList == 2
\* Longest incoming QuerySet.
MaxSeed == 2
\* Most leaves (comparisons, bare columns) of an expression tree.
MaxLeaves == 3

\* The code unit of '%' (it sorts below the letters, as in ASCII).
Pct == 0

(* --------------------------- values and nodes -------------------------- *)

Chars == 0..MaxChar

Strs == UNION {[1..n -> Chars] : n \in 0..MaxStrLen}

\* SQL_Value nodes: {type, value}.
SQL_ValueString(s) == [type |-> "string", value |-> s]
SQL_ValueNumber(n) == [type |-> "number", value |-> n]
SQL_ValueBool(b) == [type |-> "bool", value |-> b]
SQL_ValueNull == [type |-> "null", value |-> <<>>]

ColumnRef(c) == [type |-> "column_ref", column |-> c]
ExprList(vs) == [type |-> "expr_list", value |-> vs]
BinaryExpr(o, l, r) == [type |-> "binary_expr", operator |-> o, left |-> l, right |-> r]

(* ------------------------- results of a call --------------------------- *)

NoErr == ""

\* `return queries`: the returned array and the final contents of the argument.
Ok(qs, arg) == [err |-> NoErr, queries |-> qs, arg |-> arg]

\* `throw new Error(msg)`: no array is returned.
Throw(msg, arg) == [err |-> msg, queries |-> <<>>, arg |-> arg]

(* ------------------------ external collaborators ----------------------- *)

\* utils.assert(condition, message): the message it fails with, or NoErr.
assert(condition, message) == IF condition THEN NoErr ELSE message

\* utils.astValueToNative: the literal as a runtime value of the store.
astValueToNative(astValue) ==
  [js |-> CASE astValue.type = "bool" -> "boolean"
            [] astValue.type = "number" -> "number"
            [] astValue.type = "string" -> "string"
            [] astValue.type = "null" -> "null",
   val |-> astValue.value]

\* utils.prefixSuccessor: increment the last character, dropping the
\* characters that cannot be incremented.
prefixSuccessor(prefix) ==
  IF prefix = <<>> THEN <<>>
  ELSE LET index == Len(prefix) IN
       IF prefix[index] = MaxChar
       THEN prefixSuccessor(SubSeq(prefix, 1, index - 1))
       ELSE SubSeq(prefix, 1, index - 1) \o <<prefix[index] + 1>>

\* firebase.firestore.Query.where: a new query with one more filter.
where(query, field, operator, value) ==
  [filters |-> Append(query.filters,
                      [field |-> field, op |-> operator, value |-> value])]

(* ----------------------------- whereFilterOp --------------------------- *)

\* whereFilterOp with the `case 'IS':` label lost.
whereFilterOp_NoIs(op) ==
  CASE op = "=" -> [err |-> NoErr, newOp |-> "=="]
    [] op = "<" \/ op = "<=" \/ op = ">" \/ op = ">=" -> [err |-> NoErr, newOp |-> op]
    [] op = "CONTAINS" -> [err |-> NoErr, newOp |-> "array-contains"]
    [] op = "CONTAINS-ANY" -> [err |-> NoErr, newOp |-> "array-contains-any"]
    [] op = "NOT" \/ op = "NOT CONTAINS" ->
         [err |-> "\"NOT\" WHERE operator unsupported", newOp |-> ""]
    [] OTHER -> [err |-> "Unknown WHERE operator", newOp |-> ""]

whereFilterOp(op) ==
  CASE op = "=" \/ op = "IS" -> [err |-> NoErr, newOp |-> "=="]
    [] op = "<" \/ op = "<=" \/ op = ">" \/ op = ">=" -> [err |-> NoErr, newOp |-> op]
    [] op = "CONTAINS" -> [err |-> NoErr, newOp |-> "array-contains"]
    [] op = "CONTAINS-ANY" -> [err |-> NoErr, newOp |-> "array-contains-any"]
    [] op = "NOT" \/ op = "NOT CONTAINS" ->
         [err |-> "\"NOT\" WHERE operator unsupported", newOp |-> ""]
    [] OTHER -> [err |-> "Unknown WHERE operator", newOp |-> ""]

(* ----------------------------- parseWhereLike -------------------------- *)

Undefined == [type |-> "undefined"]

stringASTWhereValue(str) == [type |-> "string", value |-> str]

\* String.prototype.substr(start, length) and substring(start), 0-based.
substr(str, start, length) ==
  SubSeq(str, start + 1, IF length < 0 THEN start ELSE start + length)

substring(str, start) == SubSeq(str, start + 1, Len(str))

\* str[i], 0-based: undefined outside the string.
charAt(str, i) == IF i >= 0 /\ i < Len(str) THEN str[i + 1] ELSE -1

\* parseWhereLike testing the last character before the first.
parseWhereLike_LastFirst(str) ==
  LET strLength == Len(str)
      none == [beginsWith |-> Undefined, endsWith |-> Undefined,
               contains |-> Undefined, equals |-> Undefined]
  IN  IF charAt(str, strLength - 1) = Pct
      THEN [none EXCEPT !.beginsWith =
               stringASTWhereValue(substr(str, 0, strLength - 1))]
      ELSE IF charAt(str, 0) = Pct
           THEN [none EXCEPT !.endsWith = stringASTWhereValue(substring(str, 1))]
           ELSE [none EXCEPT !.equals = stringASTWhereValue(str)]

parseWhereLike(str) ==
  LET strLength == Len(str)
      none == [beginsWith |-> Undefined, endsWith |-> Undefined,
               contains |-> Undefined, equals |-> Undefined]
  IN  IF charAt(str, 0) = Pct
      THEN IF charAt(str, strLength - 1) = Pct
           THEN [none EXCEPT !.contains =
                    stringASTWhereValue(substr(str, 1, strLength - 2))]
           ELSE [none EXCEPT !.endsWith = stringASTWhereValue(substring(str, 1))]
      ELSE IF charAt(str, strLength - 1) = Pct
           THEN [none EXCEPT !.beginsWith =
                    stringASTWhereValue(substr(str, 0, strLength - 1))]
           ELSE [none EXCEPT !.equals = stringASTWhereValue(str)]

(* ----------------------------- applyCondition -------------------------- *)

\* queries.map(query => query.where(field, operator, value))
mapWhere(qs, field, operator, value) ==
  [i \in 1..Len(qs) |-> where(qs[i], field, operator, value)]

\* applyCondition splitting != into > then <.
applyCondition_GtFirst(qs, field, astOperator, astValue) ==
  IF astOperator = "!=" \/ astOperator = "<>"
  THEN IF astValue.type = "bool"
       THEN applyCondition(qs, field, "=", SQL_ValueBool(~astValue.value))
       ELSE LET gt == applyCondition(qs, field, ">", astValue) IN
            IF gt.err # NoErr THEN gt
            ELSE LET lt == applyCondition(gt.arg, field, "<", astValue) IN
                 IF lt.err # NoErr THEN lt
                 ELSE Ok(gt.queries \o lt.queries, lt.arg)
  ELSE LET value == astValueToNative(astValue)
           operator == whereFilterOp(astOperator)
       IN  IF operator.err # NoErr THEN Throw(operator.err, qs)
           ELSE Ok(mapWhere(qs, field, operator.newOp, value), qs)

\* applyCondition mapping the operator inside the map callback, once per query.
applyCondition_LazyOp(qs, field, astOperator, astValue) ==
  IF astOperator = "!=" \/ astOperator = "<>"
  THEN IF astValue.type = "bool"
       THEN applyCondition(qs, field, "=", SQL_ValueBool(~astValue.value))
       ELSE LET lt == applyCondition(qs, field, "<", astValue) IN
            IF lt.err # NoErr THEN lt
            ELSE LET gt == applyCondition(lt.arg, field, ">", astValue) IN
                 IF gt.err # NoErr THEN gt
                 ELSE Ok(lt.queries \o gt.queries, gt.arg)
  ELSE LET value == astValueToNative(astValue)
           operator == whereFilterOp(astOperator)
       IN  IF qs # <<>> /\ operator.err # NoErr THEN Throw(operator.err, qs)
           ELSE Ok(mapWhere(qs, field, operator.newOp, value), qs)

applyCondition(qs, field, astOperator, astValue) ==
  IF astOperator = "!=" \/ astOperator = "<>"
  THEN IF astValue.type = "bool"
       THEN applyCondition(qs, field, "=", SQL_ValueBool(~astValue.value))
       ELSE LET lt == applyCondition(qs, field, "<", astValue) IN
            IF lt.err # NoErr THEN lt
            ELSE LET gt == applyCondition(lt.arg, field, ">", astValue) IN
                 IF gt.err # NoErr THEN gt
                 ELSE Ok(lt.queries \o gt.queries, gt.arg)
  ELSE LET value == astValueToNative(astValue)
           operator == whereFilterOp(astOperator)
       IN  IF operator.err # NoErr THEN Throw(operator.err, qs)
           ELSE Ok(mapWhere(qs, field, operator.newOp, value), qs)

(* ------------------------------- applyWhere ---------------------------- *)

LeftMsg == "Unsupported WHERE type on left side."

\* AND with the right side applied to the incoming queries.
whereAnd_FromIncoming(qs, ast) ==
  LET l == applyWhere(qs, ast.left) IN
  IF l.err # NoErr THEN l
  ELSE LET r == applyWhere(l.arg, ast.right) IN
       IF r.err # NoErr THEN Throw(r.err, r.arg)
       ELSE Ok(r.queries, r.arg)

\* AND returning early once the left side leaves no query.
whereAnd_ShortCircuit(qs, ast) ==
  LET l == applyWhere(qs, ast.left) IN
  IF l.err # NoErr THEN l
  ELSE IF l.queries = <<>> THEN l
  ELSE LET r == applyWhere(l.queries, ast.right) IN
       IF r.err # NoErr THEN Throw(r.err, l.arg)
       ELSE Ok(r.queries, l.arg)

\* AND: the right side refines what the left side returned.
whereAnd(qs, ast) ==
  LET l == applyWhere(qs, ast.left) IN
  IF l.err # NoErr THEN l
  ELSE LET r == applyWhere(l.queries, ast.right) IN
       IF r.err # NoErr THEN Throw(r.err, l.arg)
       ELSE Ok(r.queries, l.arg)

\* OR with the right side applied to what the left side returned.
whereOr_Chained(qs, ast) ==
  LET l == applyWhere(qs, ast.left) IN
  IF l.err # NoErr THEN l
  ELSE LET r == applyWhere(l.queries, ast.right) IN
       IF r.err # NoErr THEN Throw(r.err, l.arg)
       ELSE Ok(l.queries \o r.queries, l.arg)

\* OR: both sides are applied to the incoming array, and concatenated.
whereOr(qs, ast) ==
  LET l == applyWhere(qs, ast.left) IN
  IF l.err # NoErr THEN l
  ELSE LET r == applyWhere(l.arg, ast.right) IN
       IF r.err # NoErr THEN r
       ELSE Ok(l.queries \o r.queries, r.arg)

\* forEach with unshift in place of push.
forEachValue_Unshift(qs, column, values, newQueries) ==
  IF values = <<>> THEN Ok(newQueries, qs)
  ELSE LET c == applyCondition(qs, column, "=", Head(values)) IN
       IF c.err # NoErr THEN c
       ELSE forEachValue(c.arg, column, Tail(values), c.queries \o newQueries)

\* forEach pushing onto the incoming array itself.
forEachValue_PushIncoming(qs, column, values, newQueries) ==
  IF values = <<>> THEN Ok(qs, qs)
  ELSE LET c == applyCondition(qs, column, "=", Head(values)) IN
       IF c.err # NoErr THEN c
       ELSE forEachValue(c.arg \o c.queries, column, Tail(values), newQueries)

\* astWhere.right.value.forEach(valueObj => newQueries.push(...))
forEachValue(qs, column, values, newQueries) ==
  IF values = <<>> THEN Ok(newQueries, qs)
  ELSE LET c == applyCondition(qs, column, "=", Head(values)) IN
       IF c.err # NoErr THEN c
       ELSE forEachValue(c.arg, column, Tail(values), newQueries \o c.queries)

whereIn(qs, ast) ==
  LET a1 == assert(ast.left.type = "column_ref", LeftMsg)
      a2 == assert(ast.right.type = "expr_list",
                   "Unsupported WHERE type on right side.")
  IN  IF a1 # NoErr THEN Throw(a1, qs)
      ELSE IF a2 # NoErr THEN Throw(a2, qs)
      ELSE forEachValue(qs, ast.left.column, ast.right.value, <<>>)

whereLike(qs, ast) ==
  LET a1 == assert(ast.left.type = "column_ref", LeftMsg)
      a2 == assert(ast.right.type = "string",
                   "Only strings are supported with LIKE in WHERE clause.")
  IN  IF a1 # NoErr THEN Throw(a1, qs)
      ELSE IF a2 # NoErr THEN Throw(a2, qs)
      ELSE LET like == parseWhereLike(ast.right.value) IN
           IF like.equals # Undefined
           THEN applyCondition(qs, ast.left.column, "=", like.equals)
           ELSE IF like.beginsWith # Undefined
           THEN LET successorStr == prefixSuccessor(like.beginsWith.value)
                    ge == applyCondition(qs, ast.left.column, ">=", like.beginsWith)
                IN  IF ge.err # NoErr THEN ge
                    ELSE LET lt == applyCondition(ge.queries, ast.left.column, "<",
                                                  stringASTWhereValue(successorStr))
                         IN  IF lt.err # NoErr THEN Throw(lt.err, ge.arg)
                             ELSE Ok(lt.queries, ge.arg)
           ELSE Throw("Only terms in the form of \"value%\" (string begins with value) and \"value\" (string equals value) are supported with LIKE in WHERE clause.", qs)

\* BETWEEN with an exclusive upper bound.
whereBetween_Exclusive(qs, ast) ==
  LET a1 == assert(ast.left.type = "column_ref", LeftMsg)
      a2 == assert(ast.right.type = "expr_list" /\ Len(ast.right.value) = 2,
                   "BETWEEN needs 2 values in WHERE clause.")
  IN  IF a1 # NoErr THEN Throw(a1, qs)
      ELSE IF a2 # NoErr THEN Throw(a2, qs)
      ELSE LET ge == applyCondition(qs, ast.left.column, ">=", ast.right.value[1]) IN
           IF ge.err # NoErr THEN ge
           ELSE LET lt == applyCondition(ge.queries, ast.left.column, "<",
                                         ast.right.value[2])
                IN  IF lt.err # NoErr THEN Throw(lt.err, ge.arg)
                    ELSE Ok(lt.queries, ge.arg)

whereBetween(qs, ast) ==
  LET a1 == assert(ast.left.type = "column_ref", LeftMsg)
      a2 == assert(ast.right.type = "expr_list" /\ Len(ast.right.value) = 2,
                   "BETWEEN needs 2 values in WHERE clause.")
  IN  IF a1 # NoErr THEN Throw(a1, qs)
      ELSE IF a2 # NoErr THEN Throw(a2, qs)
      ELSE LET ge == applyCondition(qs, ast.left.column, ">=", ast.right.value[1]) IN
           IF ge.err # NoErr THEN ge
           ELSE LET le == applyCondition(ge.queries, ast.left.column, "<=",
                                         ast.right.value[2])
                IN  IF le.err # NoErr THEN Throw(le.err, ge.arg)
                    ELSE Ok(le.queries, ge.arg)

whereContains(qs, ast) ==
  LET a1 == assert(ast.left.type = "column_ref", LeftMsg)
      a2 == assert(ast.right.type \in {"string", "number", "bool", "null"},
                   "Only strings, numbers, booleans, and null are supported with CONTAINS in WHERE clause.")
  IN  IF a1 # NoErr THEN Throw(a1, qs)
      ELSE IF a2 # NoErr THEN Throw(a2, qs)
      ELSE applyCondition(qs, ast.left.column, ast.operator, ast.right)

\* Every other operator: a comparison handed to applyCondition.
whereCompare(qs, ast) ==
  LET a1 == assert(ast.left.type = "column_ref", LeftMsg)
  IN  IF a1 # NoErr THEN Throw(a1, qs)
      ELSE applyCondition(qs, ast.left.column, ast.operator, ast.right)

\* WHERE column_name: the documents where column_name is true.
whereColumn(qs, ast) ==
  Ok(mapWhere(qs, ast.column, "==", [js |-> "boolean", val |-> TRUE]), qs)

applyWhere(qs, ast) ==
  IF ast.type = "binary_expr"
  THEN CASE ast.operator = "AND" -> whereAnd(qs, ast)
         [] ast.operator = "OR" -> whereOr(qs, ast)
         [] ast.operator = "IN" -> whereIn(qs, ast)
         [] ast.operator = "LIKE" -> whereLike(qs, ast)
         [] ast.operator = "BETWEEN" -> whereBetween(qs, ast)
         [] ast.operator = "CONTAINS" -> whereContains(qs, ast)
         [] OTHER -> whereCompare(qs, ast)
  ELSE IF ast.type = "column_ref" THEN whereColumn(qs, ast)
  ELSE Throw("Unsupported WHERE clause", qs)

(* ------------------------------- inputs -------------------------------- *)

Columns == {"a", "b"}

\* The operator tokens of a binary_expr other than AND and OR; XOR stands
\* for a token the translation does not know.
Tokens == {"IN", "LIKE", "BETWEEN", "CONTAINS", "CONTAINS-ANY", "=", "IS",
           "!=", "<>", "<", "<=", ">", ">=", "NOT", "NOT CONTAINS", "XOR"}

\* The tokens with a branch of their own in applyWhere (the right operand's
\* shape is asserted there).
ShapeTokens == {"IN", "LIKE", "BETWEEN", "CONTAINS"}

Values == {SQL_ValueNull} \cup {SQL_ValueBool(b) : b \in BOOLEAN}
            \cup {SQL_ValueNumber(n) : n \in 0..MaxNum}
            \cup {SQL_ValueString(s) : s \in Strs}

ListElems == {SQL_ValueNumber(n) : n \in 0..MaxNum} \cup {SQL_ValueString(<<1>>)}

ExprLists == {ExprList(vs) : vs \in UNION {[1..n -> ListElems] : n \in 0..MaxList}}

Lefts == {ColumnRef(c) : c \in Columns} \cup {SQL_ValueNumber(1)}

Rights == Values \cup ExprLists \cup {ColumnRef("b")}

\* Every single comparison, every bare column, and the nodes that are neither.
Leaves ==
  {BinaryExpr(o, l, r) : o \in ShapeTokens, l \in Lefts, r \in Rights}
    \cup {BinaryExpr(o, l, r) : o \in Tokens \ ShapeTokens, l \in Lefts, r \in Values}
    \cup {ColumnRef(c) : c \in Columns}
    \cup {SQL_ValueNumber(1), ExprList(<<>>)}

\* The leaves that trees are built from: one per outcome of a leaf.
TreeLeaves ==
  { BinaryExpr("=", ColumnRef("a"), SQL_ValueNumber(1)),
    BinaryExpr("!=", ColumnRef("a"), SQL_ValueNumber(1)),
    BinaryExpr("IN", ColumnRef("a"), ExprList(<<>>)),
    BinaryExpr("LIKE", ColumnRef("b"), SQL_ValueString(<<1, Pct>>)),
    BinaryExpr("=", SQL_ValueNumber(1), SQL_ValueNumber(1)),
    BinaryExpr("NOT", ColumnRef("a"), SQL_ValueNumber(1)) }

RECURSIVE ShapesOf(_)
\* The AND/OR trees with n leaves, the leaves left open.
ShapesOf(n) ==
  IF n = 1 THEN {[type |-> "leaf"]}
  ELSE UNION { {BinaryExpr(o, l, r) :
                  o \in {"AND", "OR"}, l \in ShapesOf(k), r \in ShapesOf(n - k)} :
               k \in 1..(n - 1) }

RECURSIVE LeafCount(_)
LeafCount(shape) ==
  IF shape.type = "leaf" THEN 1 ELSE LeafCount(shape.left) + LeafCount(shape.right)

RECURSIVE Fill(_, _)
\* The tree of that shape whose leaves are, from left to right, those of ls.
Fill(shape, ls) ==
  IF shape.type = "leaf" THEN ls[1]
  ELSE LET k == LeafCount(shape.left) IN
       BinaryExpr(shape.operator,
                  Fill(shape.left, SubSeq(ls, 1, k)),
                  Fill(shape.right, SubSeq(ls, k + 1, Len(ls))))

Unfiltered == [filters |-> <<>>]

\* A query that already carries a filter.
Filtered ==
  [filters |-> <<[field |-> "s", op |-> "==", value |-> [js |-> "boolean", val |-> TRUE]]>>]

\* The incoming QuerySets: the one-query seed, and one of every length up to
\* MaxSeed whose neighbouring queries differ.
Seeds ==
  {<<Unfiltered>>}
    \cup {[i \in 1..n |-> IF i % 2 = 1 THEN Filtered ELSE Unfiltered] : n \in 0..MaxSeed}

(* --------------------------- the state machine ------------------------- *)

NoResult == [err |-> NoErr, queries |-> <<>>]

\* The expression is a single leaf, or a tree of up to MaxLeaves tree leaves.
Init ==
  /\ \/ astWhere \in Leaves
     \/ \E n \in 2..MaxLeaves :
          \E shape \in ShapesOf(n), ls \in [1..n -> TreeLeaves] :
            astWhere = Fill(shape, ls)
  /\ queries \in Seeds
  /\ result = NoResult
  /\ pc = "call"

\* applyWhere(queries, astWhere) returns.
Return ==
  /\ pc = "call"
  /\ LET r == applyWhere(queries, astWhere) IN
     /\ r.err = NoErr
     /\ result' = [err |-> NoErr, queries |-> r.queries]
     /\ queries' = r.arg
  /\ pc' = "returned"
  /\ UNCHANGED astWhere

\* applyWhere(queries, astWhere) throws.
ThrowError ==
  /\ pc = "call"
  /\ LET r == applyWhere(queries, astWhere) IN
     /\ r.err # NoErr
     /\ result' = [err |-> r.err, queries |-> <<>>]
     /\ queries' = r.arg
  /\ pc' = "thrown"
  /\ UNCHANGED astWhere

Next == Return \/ ThrowError

Spec == Init /\ [][Next]_vars

(* ------------------------- vocabulary of the claims -------------------- *)

Filter(c, o, v) == [field |-> c, op |-> o, value |-> v]

\* Every query of qs with the filter f appended to its filter list.
Extend(qs, f) == [i \in 1..Len(qs) |-> [filters |-> Append(qs[i].filters, f)]]

IsBinary(e, o) == e.type = "binary_expr" /\ e.operator = o

IsPrefix(s, t) == Len(s) <= Len(t) /\ SubSeq(t, 1, Len(s)) = s

AllFilters(qs) == UNION {{qs[i].filters[j] : j \in 1..Len(qs[i].filters)} : i \in 1..Len(qs)}

LikeMsg == "Only terms in the form of \"value%\" (string begins with value) and \"value\" (string equals value) are supported with LIKE in WHERE clause."

(* ---------------- documents and what it is to satisfy ------------------ *)

\* A field's value in a document: absent, a scalar, or an array.
Missing == [js |-> "undefined", val |-> <<>>]

FieldValues ==
  {Missing} \cup {astValueToNative(v) : v \in Values}
    \cup {[js |-> "array", val |-> <<[js |-> "number", val |-> 0]>>]}

\* Column a holds any field value; column b one of a few.
Docs ==
  {[c \in Columns |-> IF c = "a" THEN x ELSE y] :
     x \in FieldValues,
     y \in {Missing, [js |-> "boolean", val |-> TRUE], [js |-> "number", val |-> 1],
             [js |-> "string", val |-> <<1>>], [js |-> "string", val |-> <<1, 1>>]}}

RECURSIVE SeqLess(_, _)
\* The lexicographic order of strings.
SeqLess(s, t) ==
  IF t = <<>> THEN FALSE
  ELSE IF s = <<>> THEN TRUE
  ELSE IF s[1] # t[1] THEN s[1] < t[1]
  ELSE SeqLess(Tail(s), Tail(t))

\* The store orders two values of one type, and no others.
Less(x, y) ==
  /\ x.js = y.js
  /\ CASE x.js = "number" -> x.val < y.val
       [] x.js = "string" -> SeqLess(x.val, y.val)
       [] x.js = "boolean" -> ~x.val /\ y.val
       [] OTHER -> FALSE

LessEq(x, y) == Less(x, y) \/ (x = y /\ x.js \in {"number", "string", "boolean"})

InArray(x, v) == x.js = "array" /\ \E k \in 1..Len(x.val) : x.val[k] = v

\* The document passes one filter of a query.
Matches(doc, f) ==
  LET x == doc[f.field] IN
  CASE f.op = "==" -> x = f.value
    [] f.op = "<" -> Less(x, f.value)
    [] f.op = "<=" -> LessEq(x, f.value)
    [] f.op = ">" -> Less(f.value, x)
    [] f.op = ">=" -> LessEq(f.value, x)
    [] f.op = "array-contains" -> InArray(x, f.value)
    [] OTHER -> FALSE

\* The document is in the union of the queries' results.
InUnion(doc, qs) ==
  \E i \in 1..Len(qs) : \A j \in 1..Len(qs[i].filters) : Matches(doc, qs[i].filters[j])

\* s LIKE p, with % a wildcard as the first or the last character of p only.
LikeMatch(s, p) ==
  LET n == Len(p)
      lead == n > 0 /\ p[1] = Pct
      trail == n > 0 /\ p[n] = Pct
      core == SubSeq(p, IF lead THEN 2 ELSE 1, IF trail THEN n - 1 ELSE n)
  IN  CASE lead /\ trail ->
             \E i \in 1..(Len(s) + 1) : SubSeq(s, i, i + Len(core) - 1) = core
        [] lead /\ ~trail ->
             Len(core) <= Len(s) /\ SubSeq(s, Len(s) - Len(core) + 1, Len(s)) = core
        [] ~lead /\ trail -> IsPrefix(core, s)
        [] OTHER -> s = p

RECURSIVE Sat(_, _)
\* The document satisfies the WHERE expression; a bare column is satisfied
\* by the value true.
Sat(doc, e) ==
  IF e.type = "column_ref" THEN doc[e.column] = [js |-> "boolean", val |-> TRUE]
  ELSE IF e.type # "binary_expr" THEN FALSE
  ELSE IF e.operator = "AND" THEN Sat(doc, e.left) /\ Sat(doc, e.right)
  ELSE IF e.operator = "OR" THEN Sat(doc, e.left) \/ Sat(doc, e.right)
  ELSE LET x == doc[e.left.column]
           o == e.operator
           r == e.right
       IN  CASE o = "IN" -> \E k \in 1..Len(r.value) : x = astValueToNative(r.value[k])
             [] o = "LIKE" -> x.js = "string" /\ LikeMatch(x.val, r.value)
             [] o = "BETWEEN" -> /\ LessEq(astValueToNative(r.value[1]), x)
                                 /\ LessEq(x, astValueToNative(r.value[2]))
             [] o = "CONTAINS" -> InArray(x, astValueToNative(r))
             [] o \in {"=", "IS"} -> x = astValueToNative(r)
             [] o \in {"!=", "<>"} -> x # Missing /\ x # astValueToNative(r)
             [] o = "<" -> Less(x, astValueToNative(r))
             [] o = "<=" -> LessEq(x, astValueToNative(r))
             [] o = ">" -> Less(astValueToNative(r), x)
             [] o = ">=" -> LessEq(astValueToNative(r), x)
             [] OTHER -> FALSE

RECURSIVE SameTypeNotEquals(_, _)
\* Every field the expression compares with != or <> holds, in the document,
\* a value of the literal's type.
SameTypeNotEquals(doc, e) ==
  \/ e.type # "binary_expr"
  \/ /\ e.operator \in {"AND", "OR"}
     /\ SameTypeNotEquals(doc, e.left)
     /\ SameTypeNotEquals(doc, e.right)
  \/ /\ e.operator \notin {"AND", "OR", "!=", "<>"}
  \/ /\ e.operator \in {"!=", "<>"}
     /\ doc[e.left.column].js = astValueToNative(e.right).js

RECURSIVE PrefixesHaveSuccessor(_)
\* No LIKE prefix of the expression is made of the largest character only.
PrefixesHaveSuccessor(e) ==
  \/ e.type # "binary_expr"
  \/ /\ e.operator \in {"AND", "OR"}
     /\ PrefixesHaveSuccessor(e.left)
     /\ PrefixesHaveSuccessor(e.right)
  \/ /\ e.operator \notin {"AND", "OR", "LIKE"}
  \/ /\ e.operator = "LIKE"
     /\ LET p == e.right.value IN
        \/ p = <<>>
        \/ p[Len(p)] # Pct
        \/ \E k \in 1..(Len(p) - 1) : p[k] # MaxChar

\* C1 as stated: from a seed of one unfiltered query, a document satisfies
\* the expression iff it passes every filter of one of the returned queries.
C1_Equivalent ==
  (pc = "returned" /\ queries = <<Unfiltered>>) =>
    \A doc \in Docs : Sat(doc, astWhere) <=> InUnion(doc, result.queries)

\* C1, amended: the same, for the documents whose fields compared with != or
\* <> hold a value of the literal's type, and the expressions whose LIKE
\* prefixes have a successor.
C1_EquivalentSameType ==
  (pc = "returned" /\ queries = <<Unfiltered>> /\ PrefixesHaveSuccessor(astWhere)) =>
    \A doc \in Docs :
      SameTypeNotEquals(doc, astWhere) =>
        (Sat(doc, astWhere) <=> InUnion(doc, result.queries))

\* C1's case: a != split in two queries under an AND, with a document of the
\* literal's type that satisfies it and one that does not.
C1_Witness ==
  /\ pc = "returned" /\ queries = <<Unfiltered>> /\ IsBinary(astWhere, "AND")
  /\ IsBinary(astWhere.left, "!=") /\ IsBinary(astWhere.right, "LIKE")
  /\ Len(result.queries) = 2
  /\ \E doc \in Docs :
       SameTypeNotEquals(doc, astWhere) /\ Sat(doc, astWhere)
         /\ InUnion(doc, result.queries)
  /\ \E doc \in Docs :
       SameTypeNotEquals(doc, astWhere) /\ ~Sat(doc, astWhere)
         /\ ~InUnion(doc, result.queries)

\* C2: from a seed of one query, A AND B returns a singleton iff A alone and
\* B alone each return a singleton, and then the sole query's filter list is
\* A's filter list followed by the filters B appends.
C2_AndSingleton ==
  (pc # "call" /\ Len(queries) = 1 /\ IsBinary(astWhere, "AND")) =>
    LET A == applyWhere(queries, astWhere.left)
        B == applyWhere(queries, astWhere.right)
        single(r) == r.err = NoErr /\ Len(r.queries) = 1
        seed == queries[1].filters
        appended(r) == SubSeq(r.queries[1].filters, Len(seed) + 1,
                              Len(r.queries[1].filters))
    IN  /\ (pc = "returned" /\ Len(result.queries) = 1) <=> (single(A) /\ single(B))
        /\ (single(A) /\ single(B)) =>
             result.queries[1].filters = A.queries[1].filters \o appended(B)

\* C2's case: a returned singleton for an AND of two non-empty sides.
C2_Witness ==
  /\ pc = "returned" /\ queries = <<Unfiltered>> /\ IsBinary(astWhere, "AND")
  /\ Len(result.queries) = 1
  /\ Len(result.queries[1].filters) = 3
  /\ result.queries[1].filters[1].field # result.queries[1].filters[2].field

\* C3: applyWhere(Q, A OR B) is applyWhere(Q, A) followed by applyWhere(Q, B),
\* both from the incoming Q; the lengths add up and equal queries stay twice.
C3_OrConcat ==
  (pc # "call" /\ IsBinary(astWhere, "OR")) =>
    LET A == applyWhere(queries, astWhere.left)
        B == applyWhere(queries, astWhere.right)
    IN  IF A.err = NoErr /\ B.err = NoErr
        THEN /\ pc = "returned"
             /\ result.queries = A.queries \o B.queries
             /\ Len(result.queries) = Len(A.queries) + Len(B.queries)
        ELSE pc = "thrown"

\* C3's case: A OR A keeps both copies of the same filter set.
C3_Witness ==
  /\ pc = "returned" /\ IsBinary(astWhere, "OR")
  /\ astWhere.left = astWhere.right
  /\ Len(queries) = 2 /\ Len(result.queries) = 4
  /\ result.queries[1] = result.queries[3]

\* C4: col != v and col <> v.  A boolean v: every query of Q with col == not v.
\* Any other v: the queries of Q with col < v, then the queries of Q with
\* col > v.  No returned filter has a not-equal operator.
C4_NotEqual ==
  /\ pc = "returned" => \A f \in AllFilters(result.queries) : f.op \notin {"!=", "<>"}
  /\ (pc # "call" /\ astWhere.type = "binary_expr"
        /\ astWhere.operator \in {"!=", "<>"} /\ astWhere.left.type = "column_ref") =>
       LET col == astWhere.left.column
           v == astWhere.right
       IN  /\ pc = "returned"
           /\ IF v.type = "bool"
              THEN result.queries =
                     Extend(queries, Filter(col, "==", [js |-> "boolean", val |-> ~v.value]))
              ELSE /\ Len(result.queries) = 2 * Len(queries)
                   /\ result.queries =
                        Extend(queries, Filter(col, "<", astValueToNative(v)))
                          \o Extend(queries, Filter(col, ">", astValueToNative(v)))

\* C4's case: a non-boolean literal against two incoming queries.
C4_Witness ==
  /\ pc = "returned" /\ IsBinary(astWhere, "<>")
  /\ astWhere.left.type = "column_ref" /\ astWhere.right.type = "string"
  /\ Len(queries) = 2 /\ Len(result.queries) = 4

RECURSIVE InExpected(_, _, _)
InExpected(qs, col, vs) ==
  IF vs = <<>> THEN <<>>
  ELSE Extend(qs, Filter(col, "==", astValueToNative(Head(vs))))
         \o InExpected(qs, col, Tail(vs))

\* C5: col IN (v1, ..., vn): in the order of the values, the queries of the
\* incoming Q each with col == vi; from one query, n queries.
C5_InFanOut ==
  (pc # "call" /\ IsBinary(astWhere, "IN") /\ astWhere.left.type = "column_ref"
     /\ astWhere.right.type = "expr_list") =>
    LET col == astWhere.left.column
        vs == astWhere.right.value
    IN  /\ pc = "returned"
        /\ result.queries = InExpected(queries, col, vs)
        /\ Len(queries) = 1 =>
             /\ Len(result.queries) = Len(vs)
             /\ \A i \in 1..Len(vs) :
                  result.queries[i].filters =
                    Append(queries[1].filters,
                           Filter(col, "==", astValueToNative(vs[i])))

\* C5's case: two different values against two incoming queries.
C5_Witness ==
  /\ pc = "returned" /\ IsBinary(astWhere, "IN")
  /\ Len(astWhere.right.value) = 2
  /\ astWhere.right.value[1] # astWhere.right.value[2]
  /\ Len(queries) = 2 /\ queries[1] # queries[2]
  /\ Len(result.queries) = 4

\* C6: col LIKE p, p a string: % first: the unsupported-LIKE error; % last
\* only: col >= prefix then col < successor(prefix) on every incoming query,
\* prefix being p without its last character; otherwise col == p.
C6_Like ==
  (pc # "call" /\ IsBinary(astWhere, "LIKE") /\ astWhere.left.type = "column_ref"
     /\ astWhere.right.type = "string") =>
    LET col == astWhere.left.column
        p == astWhere.right.value
        n == Len(p)
        first == n > 0 /\ p[1] = Pct
        last == n > 0 /\ p[n] = Pct
        prefix == SubSeq(p, 1, n - 1)
        str(x) == [js |-> "string", val |-> x]
    IN  IF first THEN pc = "thrown" /\ result.err = LikeMsg
        ELSE IF last
        THEN /\ pc = "returned"
             /\ Len(result.queries) = Len(queries)
             /\ result.queries =
                  Extend(Extend(queries, Filter(col, ">=", str(prefix))),
                         Filter(col, "<", str(prefixSuccessor(prefix))))
        ELSE /\ pc = "returned"
             /\ result.queries = Extend(queries, Filter(col, "==", str(p)))

\* C6's case: a prefix pattern against two incoming queries.
C6_Witness ==
  /\ pc = "returned" /\ IsBinary(astWhere, "LIKE")
  /\ astWhere.right.type = "string" /\ Len(astWhere.right.value) = 2
  /\ astWhere.right.value[2] = Pct
  /\ Len(queries) = 2 /\ Len(result.queries) = 2
  /\ Len(result.queries[2].filters) = Len(queries[2].filters) + 2

RECURSIVE HasBadLeft(_)
\* Under AND/OR nodes, some comparison's left operand is not a column_ref.
HasBadLeft(e) ==
  /\ e.type = "binary_expr"
  /\ IF e.operator \in {"AND", "OR"}
     THEN HasBadLeft(e.left) \/ HasBadLeft(e.right)
     ELSE e.left.type # "column_ref"

\* C7: a tree holding, under AND/OR nodes, a comparison whose left operand is
\* not a column_ref makes applyWhere throw, and nothing is returned.
C7_BadLeftThrows ==
  (pc # "call" /\ HasBadLeft(astWhere)) =>
    /\ pc = "thrown"
    /\ result.err # NoErr
    /\ result.queries = <<>>

\* C7's case: the bad comparison is the right side of an AND whose left side
\* translates alone.
C7_Witness ==
  /\ pc = "thrown" /\ IsBinary(astWhere, "AND")
  /\ Len(queries) = 1
  /\ applyWhere(queries, astWhere.left).err = NoErr
  /\ HasBadLeft(astWhere.right)
  /\ result.err = LeftMsg

\* C8: a comparison with a column_ref on the left whose token reaches
\* whereFilterOp: = and IS give ==; <, <=, >, >= give themselves; CONTAINS
\* gives array-contains; CONTAINS-ANY gives array-contains-any; NOT and NOT
\* CONTAINS throw the unsupported-operator error and every other token the
\* unknown-operator error, and then nothing is returned.
C8_OperatorMapping ==
  (pc # "call" /\ astWhere.type = "binary_expr"
     /\ astWhere.operator \notin {"AND", "OR", "IN", "LIKE", "BETWEEN", "!=", "<>"}
     /\ astWhere.left.type = "column_ref"
     /\ astWhere.right.type \in {"string", "number", "bool", "null"}) =>
    LET t == astWhere.operator
        returns(o) ==
          /\ pc = "returned"
          /\ result.queries =
               Extend(queries, Filter(astWhere.left.column, o,
                                      astValueToNative(astWhere.right)))
        throws(msg) == pc = "thrown" /\ result.err = msg /\ result.queries = <<>>
    IN  CASE t \in {"=", "IS"} -> returns("==")
          [] t \in {"<", "<=", ">", ">="} -> returns(t)
          [] t = "CONTAINS" -> returns("array-contains")
          [] t = "CONTAINS-ANY" -> returns("array-contains-any")
          [] t \in {"NOT", "NOT CONTAINS"} -> throws("\"NOT\" WHERE operator unsupported")
          [] OTHER -> throws("Unknown WHERE operator")

\* C8's case: IS mapped to == on two incoming queries.
C8_Witness ==
  /\ pc = "returned" /\ IsBinary(astWhere, "IS")
  /\ Len(queries) = 2 /\ Len(result.queries) = 2
  /\ \A i \in 1..2 :
       result.queries[i].filters[Len(result.queries[i].filters)].op = "=="

\* C9: a call, returning or throwing, leaves the incoming array and its
\* queries as they were, and every returned query's filter list starts with
\* the filter list of an incoming query.
C9_InputUnchanged ==
  [][pc = "call" =>
       /\ queries' = queries
       /\ pc' = "returned" =>
            \A i \in 1..Len(result'.queries) :
              \E j \in 1..Len(queries) :
                IsPrefix(queries[j].filters, result'.queries[i].filters)]_vars

\* C9's case: a fan-out from two incoming queries, one of them filtered.
C9_Witness ==
  /\ pc = "returned" /\ IsBinary(astWhere, "IN")
  /\ Len(queries) = 2 /\ queries[1].filters # <<>>
  /\ Len(result.queries) = 4

\* C10: whether applyWhere throws, and what, is decided by the expression
\* alone: on every incoming Q it throws iff it throws on a one-query seed,
\* with the same error, and otherwise returns len(Q) times as many queries.
C10_ErrorsIgnoreQueries ==
  pc # "call" =>
    LET one == applyWhere(<<Unfiltered>>, astWhere)
    IN  /\ result.err = one.err
        /\ (pc = "thrown") <=> (one.err # NoErr)
        /\ pc = "returned" =>
             Len(result.queries) = Len(queries) * Len(one.queries)

\* C10's case: an empty IN list on the left of an AND hands the right side no
\* query at all, and the right side still throws.
C10_Witness ==
  /\ pc = "thrown" /\ IsBinary(astWhere, "AND")
  /\ IsBinary(astWhere.left, "IN") /\ astWhere.left.right.value = <<>>
  /\ Len(queries) = 1
  /\ result.err = "\"NOT\" WHERE operator unsupported"

====
